---- MODULE Spec2Model ----
(***************************************************************************)
(* The core/list block of blocks/library/list/index.js: the two content    *)
(* converters (fromBrDelimitedContent, toBrDelimitedContent), the block    *)
(* transforms, merge, and the edit component (internalListType state,      *)
(* toolbar handlers, onSplit).                                             *)
(*                                                                         *)
(* A JavaScript string is a sequence of lexical tokens: a text character   *)
(* ("a", "b", ","), a tag ("<li>", "</li>", "<ul>", ...) or one spelling   *)
(* of the line break ("<br>", "<br/>", "<br />").  String concatenation is *)
(* \o, the empty string is <<>>.  An array of strings is a sequence of     *)
(* such sequences.                                                         *)
(***************************************************************************)
EXTENDS Integers, Sequences, FiniteSets, TLC

VARIABLES attributes, internalListType, editor, call, hostCalls

vars == <<attributes, internalListType, editor, call, hostCalls>>

\* ------------------------------------------------------------------ bounds
MaxLen == 3
MaxItems == 2
MaxParents == 2
MaxBlocks == 2

\* ------------------------------------------------------- JavaScript values
\* undefined, as the value of a string-typed attribute (never a token string)
Undefined == <<"undefined">>
Null == "null"
EmptyString == <<>>

\* a value is truthy unless it is undefined, null or the empty string
Truthy(v) == v # Undefined /\ v # EmptyString

\* the spellings of a line break that /<br\s*?\/?>/ matches
BrTokens == {"<br>", "<br/>", "<br />"}

StartTags == {"<li>", "<ul>", "<ol>", "<b>"}
EndTags == {"</li>", "</ul>", "</ol>", "</b>"}

TagNodeName(t) ==
    CASE t \in {"<li>", "</li>"} -> "LI"
      [] t \in {"<ul>", "</ul>"} -> "UL"
      [] t \in {"<ol>", "</ol>"} -> "OL"
      [] t \in {"<b>", "</b>"} -> "B"
      [] OTHER -> "BR"

StartTagOf(nodeName) ==
    CASE nodeName = "LI" -> "<li>"
      [] nodeName = "UL" -> "<ul>"
      [] nodeName = "OL" -> "<ol>"
      [] nodeName = "B" -> "<b>"
      [] OTHER -> "<br>"

EndTagOf(nodeName) ==
    CASE nodeName = "LI" -> "</li>"
      [] nodeName = "UL" -> "</ul>"
      [] nodeName = "OL" -> "</ol>"
      [] OTHER -> "</b>"

\* ------------------------------------------------ String / Array built-ins
\* String.prototype.split( /<br\s*?\/?>/ ): the segments between the matches,
\* empty segments included; "" splits to [ "" ]
RECURSIVE SplitFrom(_, _, _)
SplitFrom(s, i, cur) ==
    IF i > Len(s) THEN <<cur>>
    ELSE IF s[i] \in BrTokens THEN <<cur>> \o SplitFrom(s, i + 1, <<>>)
    ELSE SplitFrom(s, i + 1, Append(cur, s[i]))

split(s) == SplitFrom(s, 1, <<>>)

\* Array.prototype.join( separator )
RECURSIVE join(_, _)
join(arr, separator) ==
    IF arr = <<>> THEN <<>>
    ELSE IF Len(arr) = 1 THEN arr[1]
    ELSE arr[1] \o separator \o join(Tail(arr), separator)

\* the separator of join() and of Array.prototype.toString(): a comma
DefaultSeparator == <<",">>

\* the template literal `<li>${ item }</li>`
LiTemplate(item) == <<"<li>">> \o item \o <<"</li>">>

\* ------------------------------------------------- fromBrDelimitedContent
\* the reduce callback: push `<li>item</li>` for a truthy item
ReduceCallbackNoCheck(memo, item) == Append(memo, LiTemplate(item))
ReduceCallback(memo, item) ==
    IF Truthy(item) THEN Append(memo, LiTemplate(item)) ELSE memo

RECURSIVE reduce(_, _)
reduce(arr, memo) ==
    IF arr = <<>> THEN memo
    ELSE reduce(Tail(arr), ReduceCallback(memo, Head(arr)))

fromBrDelimitedContent(content) ==
    IF content = Undefined THEN content
    ELSE join(reduce(split(content), <<>>), DefaultSeparator)

\* ------------------------------------------------------------ DOM fragment
TEXT_NODE == 3

TextNode(value) ==
    [nodeType |-> TEXT_NODE, nodeName |-> "#text", nodeValue |-> value,
     childNodes |-> <<>>]

Element(nodeName, children) ==
    [nodeType |-> 1, nodeName |-> nodeName, nodeValue |-> <<>>,
     childNodes |-> children]

IsText(t) == t \notin StartTags /\ t \notin EndTags /\ t \notin BrTokens

\* the index after the run of text characters that starts at i
RECURSIVE TextRunEnd(_, _)
TextRunEnd(toks, i) ==
    IF i <= Len(toks) /\ IsText(toks[i]) THEN TextRunEnd(toks, i + 1) ELSE i

\* `list.innerHTML = values`: the child nodes parsed from position i up to the
\* end tag of the open element (or the end of the input).  Adjacent characters
\* form one text node, <br> is a void element, an end tag that closes nothing
\* is ignored.  The values parsed here have every element closed explicitly.
RECURSIVE ParseNodes(_, _, _)
ParseNodes(toks, i, open) ==
    IF i > Len(toks) THEN [nodes |-> <<>>, next |-> i]
    ELSE LET t == toks[i] IN
      IF t \in EndTags THEN
        IF TagNodeName(t) = open THEN [nodes |-> <<>>, next |-> i + 1]
        ELSE ParseNodes(toks, i + 1, open)
      ELSE IF t \in StartTags THEN
        LET inner == ParseNodes(toks, i + 1, TagNodeName(t))
            rest == ParseNodes(toks, inner.next, open)
        IN [nodes |-> <<Element(TagNodeName(t), inner.nodes)>> \o rest.nodes,
            next |-> rest.next]
      ELSE IF t \in BrTokens THEN
        LET rest == ParseNodes(toks, i + 1, open)
        IN [nodes |-> <<Element("BR", <<>>)>> \o rest.nodes, next |-> rest.next]
      ELSE
        LET j == TextRunEnd(toks, i)
            rest == ParseNodes(toks, j, open)
        IN [nodes |-> <<TextNode(SubSeq(toks, i, j - 1))>> \o rest.nodes,
            next |-> rest.next]

\* the childNodes of the detached <ul> after `list.innerHTML = values`
innerHTML(values) == ParseNodes(values, 1, "#fragment").nodes

\* element.outerHTML: the element serialised with its content
RECURSIVE outerHTML(_)
RECURSIVE SerializeNodes(_)
SerializeNodes(nodes) ==
    IF nodes = <<>> THEN <<>>
    ELSE (IF Head(nodes).nodeType = TEXT_NODE THEN Head(nodes).nodeValue
          ELSE outerHTML(Head(nodes))) \o SerializeNodes(Tail(nodes))

outerHTML(element) ==
    IF element.nodeName = "BR" THEN <<"<br>">>
    ELSE <<StartTagOf(element.nodeName)>> \o SerializeNodes(element.childNodes)
         \o <<EndTagOf(element.nodeName)>>

\* --------------------------------------------------- toBrDelimitedContent
\* appendLiToContent( li ): the strings it pushes onto `content`, in order
RECURSIVE appendLiToContent(_)
RECURSIVE ForEachAppendLi(_)
RECURSIVE ForEachChild(_)

\* nodes.forEach( appendLiToContent )
ForEachAppendLi(nodes) ==
    IF nodes = <<>> THEN <<>>
    ELSE appendLiToContent(Head(nodes)) \o ForEachAppendLi(Tail(nodes))

\* li.childNodes.forEach( ( element ) => ... )
ForEachChild(nodes) ==
    IF nodes = <<>> THEN <<>>
    ELSE LET element == Head(nodes) IN
      (IF element.nodeName = "UL" \/ element.nodeName = "OL"
         THEN ForEachAppendLi(element.childNodes)
       ELSE IF element.nodeType = TEXT_NODE THEN <<element.nodeValue>>
       ELSE <<outerHTML(element)>>)
      \o ForEachChild(Tail(nodes))

appendLiNoBreak(li) == ForEachChild(li.childNodes)
appendLiToContent(li) == ForEachChild(li.childNodes) \o << <<"<br>">> >>

toBrDelimitedContent(values) ==
    IF values = Undefined THEN values
    ELSE join(ForEachAppendLi(innerHTML(values)), EmptyString)

\* ------------------------------------------------------------- block API
createBlock(name, blockAttributes) ==
    [name |-> name, attributes |-> blockAttributes]

\* createBlock( 'core/paragraph' ): no attribute is given
NoAttributes == [content |-> Undefined]

\* ------------------------------------------------------------- transforms
FromParagraph(content) ==
    createBlock("core/list",
        [nodeName |-> "UL", values |-> fromBrDelimitedContent(content)])

\* value.map( ( subValue ) => `<li>${ subValue }</li>` )
RECURSIVE MapLi(_)
MapLi(value) ==
    IF value = <<>> THEN <<>>
    ELSE <<LiTemplate(Head(value))>> \o MapLi(Tail(value))

\* Array + string: the array is converted by toString(), which joins its
\* elements with a comma
ArrayToString(arr) == join(arr, DefaultSeparator)

FromQuote(value, citation) ==
    createBlock("core/list",
        [nodeName |-> "UL",
         values |-> ArrayToString(MapLi(value))
                    \o (IF Truthy(citation) THEN LiTemplate(citation)
                        ELSE EmptyString)])

FromPattern(nodeName, content) ==
    createBlock("core/list",
        [nodeName |-> nodeName, values |-> fromBrDelimitedContent(content)])

ToParagraph(attrs) ==
    createBlock("core/paragraph",
        [content |-> toBrDelimitedContent(attrs.values)])

ToQuote(attrs) ==
    createBlock("core/quote", [value |-> <<toBrDelimitedContent(attrs.values)>>])

\* ------------------------------------------------------------------ merge
mergeWrapContent(attrs, attributesToMerge) ==
    LET valuesToMerge ==
          (IF Truthy(attributesToMerge.values) THEN attributesToMerge.values
           ELSE EmptyString)
          \o (IF Truthy(attributesToMerge.content)
              THEN LiTemplate(attributesToMerge.content) ELSE EmptyString)
    IN [attrs EXCEPT !.values = attrs.values \o valuesToMerge]
merge(attrs, attributesToMerge) ==
    LET valuesToMerge ==
          (IF Truthy(attributesToMerge.values) THEN attributesToMerge.values
           ELSE EmptyString)
          \o (IF Truthy(attributesToMerge.content)
              THEN attributesToMerge.content ELSE EmptyString)
    IN [attrs EXCEPT !.values = attrs.values \o valuesToMerge]

\* ------------------------------------------------------- the edit component
\* isListActive( listType )
isListActive(listType) ==
    listType = (IF internalListType # Null THEN internalListType
                ELSE attributes.nodeName)

\* find( parents, node => node.nodeName === 'UL' || node.nodeName === 'OL' ):
\* the first list among the parents, or null
RECURSIVE findInternalListType(_)
findInternalListType(parents) ==
    IF parents = <<>> THEN Null
    ELSE IF Head(parents) = "UL" \/ Head(parents) = "OL" THEN Head(parents)
    ELSE findInternalListType(Tail(parents))

\* ! /^(?:fr|nl|sv|ru|de|es|it)/.test( lang ), lang given by its first letters
keyboardHasSqBracket(lang) ==
    lang \notin {"fr", "nl", "sv", "ru", "de", "es", "it"}

HostCall(fn, arg) == [fn |-> fn, arg |-> arg]
Call(op, input, result) == [op |-> op, input |-> input, result |-> result]
NoCall == Call("none", Null, Null)

\* the editor command of each 'convert to' control
ListCommand(type) ==
    IF type = "UL" THEN "InsertUnorderedList" ELSE "InsertOrderedList"

\* ------------------------------------------------------------ input sets
SeqsUpTo(S, n) == UNION {[1..k -> S] : k \in 0..n}

TextChars == {"a", "b"}
FlatTexts == SeqsUpTo(TextChars \cup {"<br>", "<br />"}, MaxLen)

RECURSIVE LiMarkup(_)
LiMarkup(items) ==
    IF items = <<>> THEN <<>>
    ELSE LiTemplate(Head(items)) \o LiMarkup(Tail(items))

ItemTexts == {<<"a">>, <<"b">>, <<"a", "b">>}
RichItems == ItemTexts \cup {<<"<b>", "a", "</b>">>, <<"a", "<br/>", "b">>}
FlatLists == {LiMarkup(items) : items \in SeqsUpTo(RichItems, MaxItems)}
NestedLists ==
    {LiTemplate(t \o <<StartTagOf(tag)>> \o LiMarkup(items) \o <<EndTagOf(tag)>>) :
        t \in ItemTexts \cup {<<>>}, tag \in {"UL", "OL"},
        items \in SeqsUpTo(ItemTexts, MaxItems) \ {<<>>}}
ListValues == FlatLists \cup NestedLists
NodeNames == {"UL", "OL"}

EditValues ==
    {<<>>, LiMarkup(<< <<"a">> >>), LiMarkup(<< <<"a">>, <<"b">> >>),
     LiTemplate(<<"a", "<ul>">> \o LiMarkup(<< <<"b">> >>) \o <<"</ul>">>)}
SplitFragments == {<<>>, LiMarkup(<< <<"a">> >>), LiMarkup(<< <<"b">> >>)}
HostBlocks ==
    {createBlock("core/paragraph", NoAttributes),
     createBlock("core/paragraph", [content |-> <<"a">>])}
ParentNames == {"LI", "UL", "OL", "BODY"}

\* ---------------------------------------------------------------- states
Init ==
    /\ attributes \in [nodeName : NodeNames, values : EditValues]
    /\ internalListType = Null
    /\ editor = Null
    /\ call = NoCall
    /\ hostCalls = <<>>

\* setupEditor( editor ): registers the nodeChange handler, adds the indent
\* shortcuts, keeps the editor
SetupEditor(lang) ==
    /\ editor = Null
    /\ editor' = "editor"
    /\ call' = Call("setupEditor", lang, Null)
    /\ hostCalls' =
         <<HostCall("editor.on", "nodeChange")>> \o
         (IF keyboardHasSqBracket(lang)
            THEN <<HostCall("shortcuts.add", <<"meta+219", "Outdent">>),
                   HostCall("shortcuts.add", <<"meta+221", "Indent">>)>>
            ELSE <<HostCall("shortcuts.add", <<"meta+shift+m", "Outdent">>),
                   HostCall("shortcuts.add", <<"meta+m", "Indent">>)>>)
    /\ UNCHANGED <<attributes, internalListType>>

\* the editor's nodeChange event, handled once setupEditor registered the handler
NodeChange(parents) ==
    /\ editor # Null
    /\ internalListType' = findInternalListType(parents)
    /\ call' = Call("nodeChange", parents, Null)
    /\ hostCalls' = <<>>
    /\ UNCHANGED <<attributes, editor>>

\* the onClick of createSetListType( type, command )
createSetListTypeAlways(type, command) ==
    /\ attributes' = [attributes EXCEPT !.nodeName = type]
    /\ hostCalls' =
         IF internalListType # Null /\ internalListType # type /\ editor # Null
           THEN <<HostCall("execCommand", command),
                  HostCall("setAttributes", [nodeName |-> type])>>
           ELSE <<HostCall("setAttributes", [nodeName |-> type])>>
    /\ call' = Call("setListType", type, Null)
    /\ UNCHANGED <<internalListType, editor>>
createSetListType(type, command) ==
    /\ IF internalListType # Null
         THEN /\ hostCalls' =
                   IF internalListType # type /\ editor # Null
                     THEN <<HostCall("execCommand", command)>>
                     ELSE <<>>
              /\ UNCHANGED attributes
         ELSE /\ hostCalls' = <<HostCall("setAttributes", [nodeName |-> type])>>
              /\ attributes' = [attributes EXCEPT !.nodeName = type]
    /\ call' = Call("setListType", type, Null)
    /\ UNCHANGED <<internalListType, editor>>

\* the onClick of createExecCommand( command )
createExecCommand(command) ==
    /\ hostCalls' = IF editor # Null THEN <<HostCall("execCommand", command)>>
                    ELSE <<>>
    /\ call' = Call("execCommand", command, Null)
    /\ UNCHANGED <<attributes, internalListType, editor>>

\* setNextValues( nextValues ), the Editable's onChange
setNextValues(nextValues) ==
    /\ attributes' = [attributes EXCEPT !.values = nextValues]
    /\ hostCalls' = <<HostCall("setAttributes", [values |-> nextValues])>>
    /\ call' = Call("setNextValues", nextValues, Null)
    /\ UNCHANGED <<internalListType, editor>>

\* the blocks onSplit passes to insertBlocksAfter
SplitBlocksParagraphIfAfter(after, blocks) ==
    (IF blocks = <<>> /\ Len(after) # 0
       THEN <<createBlock("core/paragraph", NoAttributes)>> ELSE blocks)
    \o (IF Len(after) # 0
          THEN <<createBlock("core/list",
                   [nodeName |-> attributes.nodeName, values |-> after])>>
          ELSE <<>>)
SplitBlocksListFirst(after, blocks) ==
    (IF Len(after) # 0
          THEN <<createBlock("core/list",
                   [nodeName |-> attributes.nodeName, values |-> after])>>
          ELSE <<>>)
    \o (IF blocks = <<>>
       THEN <<createBlock("core/paragraph", NoAttributes)>> ELSE blocks)
SplitBlocks(after, blocks) ==
    (IF blocks = <<>>
       THEN <<createBlock("core/paragraph", NoAttributes)>> ELSE blocks)
    \o (IF Len(after) # 0
          THEN <<createBlock("core/list",
                   [nodeName |-> attributes.nodeName, values |-> after])>>
          ELSE <<>>)

\* onSplit( before, after, ...blocks )
onSplit(before, after, blocks) ==
    /\ attributes' = [attributes EXCEPT !.values = before]
    /\ hostCalls' = <<HostCall("setAttributes", [values |-> before]),
                      HostCall("insertBlocksAfter", SplitBlocks(after, blocks))>>
    /\ call' = Call("onSplit",
                    [before |-> before, after |-> after, blocks |-> blocks], Null)
    /\ UNCHANGED <<internalListType, editor>>

\* The toolbar controls are rendered while the block has focus; focus is the
\* host's, so a click may come in any state.
Next ==
    \/ \E lang \in {"en", "fr"} : SetupEditor(lang)
    \/ \E parents \in SeqsUpTo(ParentNames, MaxParents) : NodeChange(parents)
    \/ \E type \in NodeNames : createSetListType(type, ListCommand(type))
    \/ \E command \in {"Outdent", "Indent"} : createExecCommand(command)
    \/ \E nextValues \in EditValues : setNextValues(nextValues)
    \/ \E before \in SplitFragments, after \in SplitFragments,
          blocks \in SeqsUpTo(HostBlocks, MaxBlocks) :
            onSplit(before, after, blocks)

Spec == Init /\ [][Next]_vars

\* ------------------------------------------- the converters, as operations
\* each transform and merge is a function of its arguments alone: a call
\* takes its arguments from the input sets and leaves the component as it is
CallFromParagraph(content) ==
    /\ call = NoCall
    /\ call' = Call("from:core/paragraph", [content |-> content],
                    FromParagraph(content))
    /\ UNCHANGED <<attributes, internalListType, editor, hostCalls>>

CallFromQuote(value, citation) ==
    /\ call = NoCall
    /\ call' = Call("from:core/quote", [value |-> value, citation |-> citation],
                    FromQuote(value, citation))
    /\ UNCHANGED <<attributes, internalListType, editor, hostCalls>>

CallFromPattern(nodeName, content) ==
    /\ call = NoCall
    /\ call' = Call("from:pattern", [nodeName |-> nodeName, content |-> content],
                    FromPattern(nodeName, content))
    /\ UNCHANGED <<attributes, internalListType, editor, hostCalls>>

CallToParagraph(attrs) ==
    /\ call = NoCall
    /\ call' = Call("to:core/paragraph", attrs, ToParagraph(attrs))
    /\ UNCHANGED <<attributes, internalListType, editor, hostCalls>>

CallToQuote(attrs) ==
    /\ call = NoCall
    /\ call' = Call("to:core/quote", attrs, ToQuote(attrs))
    /\ UNCHANGED <<attributes, internalListType, editor, hostCalls>>

CallMerge(attrs, attributesToMerge) ==
    /\ call = NoCall
    /\ call' = Call("merge", [attributes |-> attrs,
                              attributesToMerge |-> attributesToMerge],
                    merge(attrs, attributesToMerge))
    /\ UNCHANGED <<attributes, internalListType, editor, hostCalls>>

\* the call returns
Return ==
    /\ call # NoCall
    /\ call' = NoCall
    /\ UNCHANGED <<attributes, internalListType, editor, hostCalls>>

QuoteValues == SeqsUpTo(ItemTexts, MaxItems)
Citations == {Undefined, <<>>, <<"b">>}
ListAttributes == [nodeName : NodeNames, values : ListValues \cup {Undefined}]
MergeBases ==
    [nodeName : NodeNames,
     values : {LiMarkup(items) : items \in SeqsUpTo(ItemTexts, MaxItems)}]
AttributesToMerge ==
    [values : {Undefined, <<>>, LiMarkup(<< <<"b">> >>)},
     content : {Undefined, <<>>, <<"b">>, <<"a", "<br>", "b">>}]

NextTranscoder ==
    \/ \E content \in FlatTexts \cup {Undefined} : CallFromParagraph(content)
    \/ \E value \in QuoteValues, citation \in Citations :
         CallFromQuote(value, citation)
    \/ \E nodeName \in NodeNames, content \in FlatTexts \cup {Undefined} :
         CallFromPattern(nodeName, content)
    \/ \E attrs \in ListAttributes : CallToParagraph(attrs)
    \/ \E attrs \in ListAttributes : CallToQuote(attrs)
    \/ \E attrs \in MergeBases, attributesToMerge \in AttributesToMerge :
         CallMerge(attrs, attributesToMerge)
    \/ Return

\* the block as registered: the attribute defaults, no editor yet
InitTranscoder ==
    /\ attributes = [nodeName |-> "UL", values |-> EmptyString]
    /\ internalListType = Null
    /\ editor = Null
    /\ call = NoCall
    /\ hostCalls = <<>>

SpecTranscoder == InitTranscoder /\ [][NextTranscoder]_vars

\* ===================================================================
\* Properties
\* ===================================================================
\* the non-empty runs of characters between the line breaks of a flat text,
\* found by scanning it (not by split)
RECURSIVE RunEnd(_, _)
RunEnd(s, i) ==
    IF i <= Len(s) /\ s[i] \notin BrTokens THEN RunEnd(s, i + 1) ELSE i

RECURSIVE SegmentsFrom(_, _)
SegmentsFrom(s, i) ==
    IF i > Len(s) THEN <<>>
    ELSE IF s[i] \in BrTokens THEN SegmentsFrom(s, i + 1)
    ELSE <<SubSeq(s, i, RunEnd(s, i) - 1)>> \o SegmentsFrom(s, RunEnd(s, i))

NonEmptySegments(s) == SegmentsFrom(s, 1)

\* t1 <br> t2 <br> ... tn <br>
RECURSIVE BrTerminated(_)
BrTerminated(items) ==
    IF items = <<>> THEN <<>>
    ELSE Head(items) \o <<"<br>">> \o BrTerminated(Tail(items))

Count(s, tok) == Cardinality({i \in DOMAIN s : s[i] = tok})

\* a call of fromBrDelimitedContent on a defined flat text has returned
FromBrCalled ==
    /\ call.op \in {"from:core/paragraph", "from:pattern"}
    /\ call.input.content # Undefined

\* a call of toBrDelimitedContent on defined values has returned, and its result
ToBrCalled ==
    /\ call.op \in {"to:core/paragraph", "to:core/quote"}
    /\ call.input.values # Undefined

ToBrResult ==
    IF call.op = "to:core/paragraph" THEN call.result.attributes.content
    ELSE call.result.attributes.value[1]

\* C1: fromBrDelimitedContent returns <li>s1</li>...<li>sn</li> for the
\* non-empty segments s1..sn of its input, the items concatenated directly
\* with no separator between them.
C1_ItemsConcatenatedDirectly ==
    FromBrCalled =>
        call.result.attributes.values
            = LiMarkup(NonEmptySegments(call.input.content))

\* C2: for a list item holding a nested list, toBrDelimitedContent emits the
\* outer item's text and each nested item's text in document order, each
\* followed by exactly one line break: <li>a<ul><li>b</li></ul></li> gives
\* a<br>b<br>.
C2_NestedItemsEachTerminated ==
    ToBrCalled =>
        \A t \in ItemTexts, tag \in NodeNames,
           items \in SeqsUpTo(ItemTexts, MaxItems) \ {<<>>} :
            call.input.values
                = LiTemplate(t \o <<StartTagOf(tag)>> \o LiMarkup(items)
                             \o <<EndTagOf(tag)>>)
            => ToBrResult = BrTerminated(<<t>> \o items)

\* C3: round trip: toBrDelimitedContent( fromBrDelimitedContent( x ) ) is the
\* non-empty segments of x in order, each followed by exactly one <br>, and
\* nothing else.
C3_RoundTrip ==
    FromBrCalled =>
        toBrDelimitedContent(call.result.attributes.values)
            = BrTerminated(NonEmptySegments(call.input.content))

\* C4: merge keeps nodeName (every attribute of the base but values) and sets
\* values to the base's values, then the incoming values (nothing when
\* absent), then the incoming content when present, concatenated as they are:
\* the content is not wrapped in <li>.
C4_MergeConcatenates ==
    call.op = "merge" =>
        LET base == call.input.attributes
            incoming == call.input.attributesToMerge
            present(v) == v # Undefined /\ Len(v) > 0
        IN /\ call.result.nodeName = base.nodeName
           /\ DOMAIN call.result = DOMAIN base
           /\ Len(call.result.values)
                = Len(base.values)
                  + (IF present(incoming.values) THEN Len(incoming.values) ELSE 0)
                  + (IF present(incoming.content) THEN Len(incoming.content) ELSE 0)
           /\ SubSeq(call.result.values, 1, Len(base.values)) = base.values
           /\ present(incoming.values) =>
                SubSeq(call.result.values, Len(base.values) + 1,
                       Len(base.values) + Len(incoming.values)) = incoming.values
           /\ present(incoming.content) =>
                SubSeq(call.result.values,
                       Len(call.result.values) - Len(incoming.content) + 1,
                       Len(call.result.values)) = incoming.content

C4_Witness ==
    /\ call.op = "merge"
    /\ call.input.attributes.values = <<"<li>", "a", "</li>">>
    /\ call.input.attributesToMerge.values = Undefined
    /\ call.input.attributesToMerge.content = <<"b">>
    /\ call.result.values = <<"<li>", "a", "</li>", "b">>

\* the blocks of the insertBlocksAfter call of the last onSplit
Inserted == hostCalls[2].arg

ParagraphCount(blocks) ==
    Cardinality({i \in DOMAIN blocks : blocks[i].name = "core/paragraph"})

\* onSplit put a paragraph block among the inserted blocks that the host did
\* not supply
ParagraphAdded == ParagraphCount(Inserted) > ParagraphCount(call.input.blocks)

\* the list block onSplit creates for the `after` fragment
AfterListBlock ==
    createBlock("core/list",
        [nodeName |-> attributes.nodeName, values |-> call.input.after])

\* C5 as stated: a paragraph block is inserted implicitly only when the host
\* supplied no intermediate blocks and `after` is non-empty.
C5_ParagraphOnlyWithAfter ==
    call.op = "onSplit" =>
        (ParagraphAdded <=>
            (call.input.blocks = <<>> /\ call.input.after # <<>>))

\* C5, amended: a single empty paragraph block is inserted implicitly exactly
\* when the host supplied no intermediate blocks, whether or not `after` is
\* empty; with intermediate blocks none is added.
C5_ParagraphWhenNoBlocks ==
    call.op = "onSplit" =>
        /\ ParagraphAdded <=> call.input.blocks = <<>>
        /\ call.input.blocks = <<>> =>
             /\ Inserted[1] = createBlock("core/paragraph", NoAttributes)
             /\ ParagraphCount(Inserted) = 1
        /\ call.input.blocks # <<>> =>
             ParagraphCount(Inserted) = ParagraphCount(call.input.blocks)

C5_Witness ==
    /\ call.op = "onSplit"
    /\ call.input.blocks = <<>>
    /\ call.input.after = <<>>
    /\ Inserted = <<createBlock("core/paragraph", NoAttributes)>>

\* the calls onSplit makes: one setAttributes, then one insertBlocksAfter
SplitCalls(calls) ==
    /\ Len(calls) = 2
    /\ calls[1].fn = "setAttributes"
    /\ calls[2].fn = "insertBlocksAfter"

\* C6 as stated: a split sets values to `before`, keeps nodeName, and inserts,
\* in one insertBlocksAfter call, the intermediate blocks in their order
\* followed by a new list block (same nodeName, values = after) if and only if
\* `after` is non-empty.
C6_InsertedIsBlocksThenList ==
    [][call'.op = "onSplit" =>
         /\ attributes'.values = call'.input.before
         /\ attributes'.nodeName = attributes.nodeName
         /\ SplitCalls(hostCalls')
         /\ hostCalls'[2].arg
              = call'.input.blocks
                \o (IF call'.input.after # <<>>
                      THEN <<createBlock("core/list",
                               [nodeName |-> attributes.nodeName,
                                values |-> call'.input.after])>>
                      ELSE <<>>)]_vars

\* C6, amended: as stated, except that when no intermediate block was
\* supplied a single empty paragraph block stands in their place, before the
\* new list block.
C6_InsertedIsBlocksOrParagraphThenList ==
    [][call'.op = "onSplit" =>
         /\ attributes'.values = call'.input.before
         /\ attributes'.nodeName = attributes.nodeName
         /\ SplitCalls(hostCalls')
         /\ hostCalls'[2].arg
              = (IF call'.input.blocks = <<>>
                   THEN <<createBlock("core/paragraph", NoAttributes)>>
                   ELSE call'.input.blocks)
                \o (IF call'.input.after # <<>>
                      THEN <<createBlock("core/list",
                               [nodeName |-> attributes.nodeName,
                                values |-> call'.input.after])>>
                      ELSE <<>>)]_vars

C6_Witness ==
    /\ call.op = "onSplit"
    /\ Len(call.input.blocks) = 2
    /\ call.input.blocks[1] # call.input.blocks[2]
    /\ call.input.after # <<>>
    /\ attributes.nodeName = "OL"
    /\ attributes.values = call.input.before
    /\ Inserted = call.input.blocks \o <<AfterListBlock>>

\* C7: for flat markup of n items with plain-text content t1..tn,
\* toBrDelimitedContent returns t1<br>t2<br>...tn<br>: one break after each
\* item, the last included.
C7_FlatItemsEachTerminated ==
    ToBrCalled =>
        \A items \in SeqsUpTo(ItemTexts, MaxItems) :
            call.input.values = LiMarkup(items)
            => ToBrResult = BrTerminated(items)

C7_Witness ==
    /\ ToBrCalled
    /\ call.input.values = <<"<li>", "a", "</li>", "<li>", "b", "</li>">>
    /\ ToBrResult = <<"a", "<br>", "b", "<br>">>

\* C8: fromBrDelimitedContent emits no empty <li></li>: the number of <li>
\* items is the number of non-empty segments, and an input that is empty or
\* only line breaks gives the empty string.
C8_NoEmptyItems ==
    FromBrCalled =>
        LET content == call.input.content
            out == call.result.attributes.values
            starts == {i \in DOMAIN content :
                         /\ content[i] \notin BrTokens
                         /\ (i = 1 \/ content[i - 1] \in BrTokens)}
        IN /\ \A i \in 1..(Len(out) - 1) :
                ~(out[i] = "<li>" /\ out[i + 1] = "</li>")
           /\ Count(out, "<li>") = Cardinality(starts)
           /\ Count(out, "</li>") = Cardinality(starts)
           /\ (\A i \in DOMAIN content : content[i] \in BrTokens) => out = <<>>

C8_Witness ==
    /\ FromBrCalled
    /\ call.input.content = <<"<br>", "a", "<br />">>
    /\ call.result.attributes.values = <<"<li>", "a", "</li>">>

\* C9: the quote transform gives <li>v</li> for each entry v of value, in
\* order and with no separator, then <li>citation</li> if and only if
\* citation is non-empty; nodeName is UL.
C9_QuoteItemsConcatenatedDirectly ==
    call.op = "from:core/quote" =>
        /\ call.result.attributes.nodeName = "UL"
        /\ call.result.attributes.values
             = LiMarkup(call.input.value)
               \o (IF call.input.citation # Undefined /\ call.input.citation # <<>>
                     THEN <<"<li>">> \o call.input.citation \o <<"</li>">>
                     ELSE <<>>)

HasCall(calls, fn) == \E i \in DOMAIN calls : calls[i].fn = fn

\* C10: a click on 'convert to T' while internalListType is set leaves
\* nodeName as it is and issues the editor's list command only if
\* internalListType differs from T and the editor is set up; while
\* internalListType is null the click sets nodeName to T, issues no editor
\* command, and then T is the active list type and the other is not.
C10_SetListType ==
    [][\A T \in NodeNames, other \in NodeNames :
         (call'.op = "setListType" /\ call'.input = T /\ other # T) =>
            IF internalListType # Null
              THEN /\ attributes'.nodeName = attributes.nodeName
                   /\ ~HasCall(hostCalls', "setAttributes")
                   /\ HasCall(hostCalls', "execCommand") =>
                        /\ internalListType # T
                        /\ editor # Null
                        /\ hostCalls' = <<HostCall("execCommand", ListCommand(T))>>
              ELSE /\ attributes'.nodeName = T
                   /\ ~HasCall(hostCalls', "execCommand")
                   /\ isListActive(T)'
                   /\ ~isListActive(other)']_vars

\* the click inside a nested list of the other type: the command went to the
\* editor and the block kept its nodeName
C10_Witness ==
    /\ call.op = "setListType"
    /\ internalListType = "OL"
    /\ call.input = "UL"
    /\ attributes.nodeName = "OL"
    /\ hostCalls = <<HostCall("execCommand", "InsertUnorderedList")>>

====
